---- MODULE Spec2Model ----
(***************************************************************************)
(* Order service of the e-commerce demo (src/unnamed/part_000): the        *)
(* checkout handler POST /orders, the order status endpoint, the cart      *)
(* endpoints, and the relational store they share with the catalog.        *)
(*                                                                         *)
(* The store is PostgreSQL at its default isolation level (read            *)
(* committed).  Statements sent through pool.query commit on their own;    *)
(* statements sent through the checked-out client of POST /orders belong   *)
(* to the transaction opened by BEGIN and are invisible to every other     *)
(* connection until COMMIT.  A statement that fails inside a transaction   *)
(* leaves the transaction aborted; COMMIT of an aborted transaction is     *)
(* answered without error and rolls the transaction back.                  *)
(*                                                                         *)
(* Money is counted in cents: prices are DECIMAL(10,2) columns, and the    *)
(* handler's floating point sum is rounded back to two decimals by the     *)
(* total_amount column, which is exact at these magnitudes.                *)
(*                                                                         *)
(* The payment endpoint is whatever PAYMENT_SERVICE_URL names; the handler *)
(* sees one of three outcomes of its HTTP call: a 2xx answer with status   *)
(* success, a 2xx answer with status failed, or a rejected call.           *)
(*                                                                         *)
(* The payment service (src/backend/payment-service/server.js) works on    *)
(* the same database; its POST /payments requests come from any client.    *)
(***************************************************************************)
EXTENDS Integers, Sequences, FiniteSets, TLC

\* ---------------------------------------------------------------- bounds
MaxCheckouts == 2      \* POST /orders requests, all of which may overlap
MaxCartAdds == 2       \* POST /cart/add requests
MaxPayments == 1       \* POST /payments requests

Reqs == 1..MaxCheckouts
PayReqs == 1..MaxPayments
Adders == 1..MaxCartAdds

\* ------------------------------------------------------ program constants
DefaultAddress == "Default Address"
ValidStatuses == {"pending", "processing", "shipped", "delivered", "cancelled"}
\* The seed catalog, in cents: product 1 at 999.99, product 2 at 29.99.
SeedPrice == (1 :> 99999) @@ (2 :> 2999)
Products == DOMAIN SeedPrice

\* ------------------------------------------------------------------ inputs
GivenAddress == "Test Address, Test City, Test Country"
\* PUT /orders/:id/status bodies: the valid statuses and one that is not.
RequestStatuses == ValidStatuses \cup {"refunded"}
\* PUT /products/:id bodies: the prices a product is changed to.
Prices == {2999, 3499}
It(p, q) == [product_id |-> p, quantity |-> q]
Body(h, l, a) == [hasItems |-> h, items |-> l, shipping_address |-> a]
\* POST /orders bodies: items missing, items empty, one item, two items of
\* different products, two equal items; shipping_address missing, given or
\* the empty string.
Bodies ==
  { Body(FALSE, <<>>, "missing"),
    Body(TRUE, <<>>, GivenAddress),
    Body(TRUE, <<It(2, 2)>>, GivenAddress),
    Body(TRUE, <<It(1, 1), It(2, 2)>>, "missing"),
    Body(TRUE, <<It(2, 1), It(2, 1)>>, "") }

NoOrder == [id |-> 0, total_amount |-> 0, shipping_address |-> "missing", status |-> "none"]
EmptyRows == [x \in {} |-> 0]

VARIABLES
  products,     \* catalog: product id -> price
  cart,         \* committed cart rows [id, product_id, quantity] of user 1
  cartSeq,      \* cart_id_seq
  orders,       \* committed orders: id -> [total_amount, shipping_address, status]
  order_items,  \* committed order_items rows [order_id, line, product_id, quantity, price]
  orderSeq,     \* orders_id_seq
  tx,           \* per checkout: the transaction of its client connection
  co,           \* per checkout: the handler's position and local variables
  adder,        \* per POST /cart/add handler: its position and locals
  budget,       \* how many more POST /cart/add requests arrive
  payments,     \* committed payments rows [id, order_id, transaction_id, amount, status]
  paySeq,       \* payments_id_seq
  pay,          \* per POST /payments request: the handler's position and locals
  cartItems     \* the cart page of the frontend: the items it last fetched

vars == <<products, cart, cartSeq, orders, order_items, orderSeq, tx, co, adder, budget,
          payments, paySeq, pay, cartItems>>

NoTx == [state |-> "none", orders |-> EmptyRows, items |-> {}, cartDel |-> {}]

IdleCheckout ==
  [pc |-> "idle", hasItems |-> FALSE, items |-> <<>>, shipping_address |-> "missing", i |-> 0,
   lookups |-> <<>>, totalAmount |-> 0, orderItems |-> <<>>, order |-> NoOrder,
   payment |-> "none", payCalls |-> 0, statusUpdate |-> "none", error |-> "none", res |-> 0,
   handler |-> "part_000", released |-> 0]

IdleAdder == [pc |-> "idle", productId |-> 0, quantity |-> 0, found |-> FALSE]

IdlePayment ==
  [pc |-> "idle", order_id |-> 0, amount |-> 0, status |-> "none", res |-> 0,
   body |-> [status |-> "none", amount |-> 0, transaction_id |-> 0]]

Init ==
  /\ products = SeedPrice
  /\ cart = {}
  /\ cartSeq = 1
  /\ orders = EmptyRows
  /\ order_items = {}
  /\ orderSeq = 1
  /\ tx = [r \in Reqs |-> NoTx]
  /\ co = [r \in Reqs |-> IdleCheckout]
  /\ adder = [a \in Adders |-> IdleAdder]
  /\ budget = [adds |-> MaxCartAdds]
  /\ payments = {}
  /\ paySeq = 1
  /\ pay = [s \in PayReqs |-> IdlePayment]
  /\ cartItems = <<>>

\* ------------------------------------------------------------- POST /orders
\* pool.connect() hands the request a client; the body is read later, but it
\* is fixed when the request arrives.
Start(r, body) ==
  /\ co[r].pc = "idle"
  /\ \A q \in Reqs : q < r => co[q].pc # "idle"
  /\ co' = [co EXCEPT ![r] = [@ EXCEPT !.pc = "begin", !.hasItems = body.hasItems,
                                        !.items = body.items,
                                        !.shipping_address = body.shipping_address]]
  /\ UNCHANGED <<products, cart, cartSeq, orders, order_items, orderSeq, tx, adder, budget, payments, paySeq, pay, cartItems>>

\* POST /orders arriving at the other version of the service, whose handler
\* issues the same statements and calls in the same order and differs in
\* its catch and finally (and in the messages it answers with a 500).
Start001(r, body) ==
  /\ co[r].pc = "idle"
  /\ \A q \in Reqs : q < r => co[q].pc # "idle"
  /\ co' = [co EXCEPT ![r] = [@ EXCEPT !.pc = "begin", !.hasItems = body.hasItems,
                                        !.items = body.items,
                                        !.shipping_address = body.shipping_address,
                                        !.handler = "part_001"]]
  /\ UNCHANGED <<products, cart, cartSeq, orders, order_items, orderSeq, tx, adder, budget, payments, paySeq, pay, cartItems>>

\* The messages of the errors the handler throws; the catch answers the
\* message of the error it caught.
StartTransactionFailed == "Failed to start database transaction"
NoItemsProvided == "No items provided"
ProcessProductFailed == "Failed to process product"
CreateOrderFailed == "Failed to create order"
CreateOrderItemFailed == "Failed to create order item"
ClearCartFailed == "Failed to clear cart"
CommitFailed == "Failed to commit database transaction"

\* The throw of a try block: the handler's catch issues ROLLBACK next.
Throw(r, e) == [co EXCEPT ![r] = [@ EXCEPT !.pc = "rollback", !.error = e]]

\* A statement of the transaction failed: the transaction is aborted.
Abort(r) == [tx EXCEPT ![r] = [@ EXCEPT !.state = "aborted"]]

\* Begin that first takes a lock on the owner, held until the end of the
\* transaction: it waits while another checkout has its transaction open.
BeginSerialized(r, ok) ==
  /\ co[r].pc = "begin"
  /\ \A q \in Reqs \ {r} : tx[q].state = "none"
  /\ IF ~ok
       THEN /\ co' = Throw(r, StartTransactionFailed)
            /\ tx' = tx
       ELSE /\ tx' = [tx EXCEPT ![r] = [@ EXCEPT !.state = "open"]]
            /\ IF ~co[r].hasItems \/ Len(co[r].items) = 0
                 THEN co' = Throw(r, NoItemsProvided)
                 ELSE co' = [co EXCEPT ![r] = [@ EXCEPT !.pc = "lookup", !.i = 1]]
  /\ UNCHANGED <<products, cart, cartSeq, orders, order_items, orderSeq, adder, budget, payments, paySeq, pay, cartItems>>

\* BEGIN, then the validation of items (no await in between).
Begin(r, ok) ==
  /\ co[r].pc = "begin"
  /\ IF ~ok
       THEN /\ co' = Throw(r, StartTransactionFailed)
            /\ tx' = tx
       ELSE /\ tx' = [tx EXCEPT ![r] = [@ EXCEPT !.state = "open"]]
            /\ IF ~co[r].hasItems \/ Len(co[r].items) = 0
                 THEN co' = Throw(r, NoItemsProvided)
                 ELSE co' = [co EXCEPT ![r] = [@ EXCEPT !.pc = "lookup", !.i = 1]]
  /\ UNCHANGED <<products, cart, cartSeq, orders, order_items, orderSeq, adder, budget, payments, paySeq, pay, cartItems>>

\* Lookup that goes through the whole list before it reports a failure: the
\* error is thrown after the last item has been looked up.
LookupAll(r, found) ==
  /\ co[r].pc = "lookup"
  /\ LET item == co[r].items[co[r].i]
         last == co[r].i = Len(co[r].items)
         failed == ~found \/ co[r].error = ProcessProductFailed
     IN co' = [co EXCEPT ![r] =
                 [@ EXCEPT !.lookups = Append(@, item.product_id),
                           !.totalAmount = IF found THEN @ + products[item.product_id] * item.quantity
                                           ELSE @,
                           !.orderItems = IF found
                                            THEN Append(@, [product_id |-> item.product_id,
                                                            quantity |-> item.quantity,
                                                            price |-> products[item.product_id]])
                                            ELSE @,
                           !.error = IF failed THEN ProcessProductFailed ELSE @,
                           !.i = IF last /\ ~failed THEN 0 ELSE IF last THEN @ ELSE @ + 1,
                           !.pc = IF ~last THEN "lookup"
                                  ELSE IF failed THEN "rollback" ELSE "insertOrder"]]
  /\ UNCHANGED <<products, cart, cartSeq, orders, order_items, orderSeq, tx, adder, budget, payments, paySeq, pay, cartItems>>

\* Lookup whose catch logs the failure without throwing again: the item is
\* kept at price 0 and the loop goes on.
LookupNoRethrow(r, found) ==
  /\ co[r].pc = "lookup"
  /\ LET item == co[r].items[co[r].i]
         price == IF found THEN products[item.product_id] ELSE 0
     IN co' = [co EXCEPT ![r] =
                 [@ EXCEPT !.lookups = Append(@, item.product_id),
                           !.totalAmount = @ + price * item.quantity,
                           !.orderItems = Append(@, [product_id |-> item.product_id,
                                                     quantity |-> item.quantity,
                                                     price |-> price]),
                           !.error = IF found THEN @ ELSE ProcessProductFailed,
                           !.i = IF co[r].i = Len(co[r].items) THEN 0 ELSE @ + 1,
                           !.pc = IF co[r].i = Len(co[r].items) THEN "insertOrder" ELSE "lookup"]]
  /\ UNCHANGED <<products, cart, cartSeq, orders, order_items, orderSeq, tx, adder, budget, payments, paySeq, pay, cartItems>>

\* One iteration of the pricing loop: getProductDetails answers the catalog
\* row, or throws (404 or transport error).
Lookup(r, found) ==
  /\ co[r].pc = "lookup"
  /\ LET item == co[r].items[co[r].i]
         price == products[item.product_id]
         itemTotal == price * item.quantity
     IN IF ~found
          THEN co' = [Throw(r, ProcessProductFailed) EXCEPT
                        ![r].lookups = Append(@, item.product_id)]
          ELSE co' = [co EXCEPT ![r] =
                 [@ EXCEPT !.lookups = Append(@, item.product_id),
                           !.totalAmount = @ + itemTotal,
                           !.orderItems = Append(@, [product_id |-> item.product_id,
                                                     quantity |-> item.quantity,
                                                     price |-> price]),
                           !.i = IF co[r].i = Len(co[r].items) THEN 0 ELSE @ + 1,
                           !.pc = IF co[r].i = Len(co[r].items) THEN "insertOrder" ELSE "lookup"]]
  /\ UNCHANGED <<products, cart, cartSeq, orders, order_items, orderSeq, tx, adder, budget, payments, paySeq, pay, cartItems>>

\* InsertOrder sent through the pool instead of the client: the row commits
\* on its own, outside the transaction.
InsertOrderAutocommit(r, ok) ==
  /\ co[r].pc = "insertOrder"
  /\ IF ~ok
       THEN /\ co' = Throw(r, CreateOrderFailed)
            /\ tx' = Abort(r)
            /\ UNCHANGED <<orderSeq, orders>>
       ELSE /\ orders' = (orderSeq :> [total_amount |-> co[r].totalAmount,
                                       shipping_address |-> DefaultAddress,
                                       status |-> "pending"]) @@ orders
            /\ co' = [co EXCEPT ![r] =
                   [@ EXCEPT !.order = [id |-> orderSeq, total_amount |-> co[r].totalAmount,
                                        shipping_address |-> DefaultAddress,
                                        status |-> "pending"],
                             !.i = 1, !.pc = "insertItems"]]
            /\ orderSeq' = orderSeq + 1
            /\ tx' = tx
  /\ UNCHANGED <<products, cart, cartSeq, order_items, adder, budget, payments, paySeq, pay, cartItems>>

\* InsertOrder with the id taken as the number of committed orders plus one
\* instead of the sequence: overlapping checkouts get the same id.
InsertOrderCountId(r, ok) ==
  /\ co[r].pc = "insertOrder"
  /\ IF ~ok
       THEN /\ co' = Throw(r, CreateOrderFailed)
            /\ tx' = Abort(r)
       ELSE LET id == Cardinality(DOMAIN orders) + 1
                row == [total_amount |-> co[r].totalAmount,
                        shipping_address |-> DefaultAddress,
                        status |-> "pending"]
            IN /\ tx' = [tx EXCEPT ![r] = [@ EXCEPT !.orders = (id :> row)]]
               /\ co' = [co EXCEPT ![r] =
                      [@ EXCEPT !.order = [id |-> id, total_amount |-> row.total_amount,
                                           shipping_address |-> row.shipping_address,
                                           status |-> row.status],
                                !.i = 1, !.pc = "insertItems"]]
  /\ UNCHANGED <<products, cart, cartSeq, orders, order_items, orderSeq, adder, budget, payments, paySeq, pay, cartItems>>

\* InsertOrder passing shipping_address as it came, without the default.
InsertOrderNoDefault(r, ok) ==
  /\ co[r].pc = "insertOrder"
  /\ IF ~ok
       THEN /\ co' = Throw(r, CreateOrderFailed)
            /\ tx' = Abort(r)
            /\ orderSeq' = orderSeq
       ELSE LET row == [total_amount |-> co[r].totalAmount,
                        shipping_address |-> co[r].shipping_address,
                        status |-> "pending"]
            IN /\ tx' = [tx EXCEPT ![r] = [@ EXCEPT !.orders = (orderSeq :> row)]]
               /\ co' = [co EXCEPT ![r] =
                      [@ EXCEPT !.order = [id |-> orderSeq,
                                           total_amount |-> row.total_amount,
                                           shipping_address |-> row.shipping_address,
                                           status |-> row.status],
                                !.i = 1, !.pc = "insertItems"]]
               /\ orderSeq' = orderSeq + 1
  /\ UNCHANGED <<products, cart, cartSeq, orders, order_items, adder, budget, payments, paySeq, pay, cartItems>>

\* INSERT INTO orders ... RETURNING *: the row is written inside the
\* transaction and kept in the handler's variable order.
InsertOrder(r, ok) ==
  /\ co[r].pc = "insertOrder"
  /\ IF ~ok
       THEN /\ co' = Throw(r, CreateOrderFailed)
            /\ tx' = Abort(r)
            /\ orderSeq' = orderSeq
       ELSE LET row == [total_amount |-> co[r].totalAmount,
                        shipping_address |-> IF co[r].shipping_address \in {"missing", ""}
                                               THEN DefaultAddress
                                               ELSE co[r].shipping_address,
                        status |-> "pending"]
            IN /\ tx' = [tx EXCEPT ![r] = [@ EXCEPT !.orders = (orderSeq :> row)]]
               /\ co' = [co EXCEPT ![r] =
                      [@ EXCEPT !.order = [id |-> orderSeq,
                                           total_amount |-> row.total_amount,
                                           shipping_address |-> row.shipping_address,
                                           status |-> row.status],
                                !.i = 1, !.pc = "insertItems"]]
               /\ orderSeq' = orderSeq + 1
  /\ UNCHANGED <<products, cart, cartSeq, orders, order_items, adder, budget, payments, paySeq, pay, cartItems>>

\* InsertItem sent through the pool instead of the client: the line commits
\* on its own.
InsertItemAutocommit(r, ok) ==
  /\ co[r].pc = "insertItems"
  /\ LET item == co[r].orderItems[co[r].i]
         last == co[r].i = Len(co[r].orderItems)
     IN IF ~ok
          THEN /\ co' = Throw(r, CreateOrderItemFailed)
               /\ tx' = Abort(r)
               /\ order_items' = order_items
          ELSE /\ order_items' = order_items \cup
                          {[order_id |-> co[r].order.id, line |-> co[r].i,
                            product_id |-> item.product_id, quantity |-> item.quantity,
                            price |-> item.price]}
               /\ tx' = tx
               /\ co' = [co EXCEPT ![r] = [@ EXCEPT !.i = IF last THEN 0 ELSE @ + 1,
                                                     !.pc = IF last THEN "clearCart" ELSE "insertItems"]]
  /\ UNCHANGED <<products, cart, cartSeq, orders, orderSeq, adder, budget, payments, paySeq, pay, cartItems>>

\* One iteration of the order_items loop.
InsertItem(r, ok) ==
  /\ co[r].pc = "insertItems"
  /\ LET item == co[r].orderItems[co[r].i]
         last == co[r].i = Len(co[r].orderItems)
     IN IF ~ok
          THEN /\ co' = Throw(r, CreateOrderItemFailed)
               /\ tx' = Abort(r)
          ELSE /\ tx' = [tx EXCEPT ![r] = [@ EXCEPT !.items = @ \cup
                          {[order_id |-> co[r].order.id, line |-> co[r].i,
                            product_id |-> item.product_id, quantity |-> item.quantity,
                            price |-> item.price]}]]
               /\ co' = [co EXCEPT ![r] = [@ EXCEPT !.i = IF last THEN 0 ELSE @ + 1,
                                                     !.pc = IF last THEN "clearCart" ELSE "insertItems"]]
  /\ UNCHANGED <<products, cart, cartSeq, orders, order_items, orderSeq, adder, budget, payments, paySeq, pay, cartItems>>

\* Cart rows some other open transaction has deleted and not yet committed:
\* a statement that touches one of them waits for that transaction to end.
LockedByOthers(r) == UNION {tx[q].cartDel : q \in Reqs \ {r}}

\* ClearCart sent through the pool instead of the client: the rows are
\* deleted at once, whatever becomes of the transaction.
ClearCartAutocommit(r, ok) ==
  /\ co[r].pc = "clearCart"
  /\ {c.id : c \in cart} \cap LockedByOthers(r) = {}
  /\ IF ~ok
       THEN /\ co' = Throw(r, ClearCartFailed)
            /\ tx' = Abort(r)
            /\ cart' = cart
       ELSE /\ cart' = {}
            /\ tx' = tx
            /\ co' = [co EXCEPT ![r] = [@ EXCEPT !.pc = "payCall"]]
  /\ UNCHANGED <<products, cartSeq, orders, order_items, orderSeq, adder, budget, payments, paySeq, pay, cartItems>>

\* DELETE FROM cart WHERE user_id = 1, inside the transaction: it takes the
\* rows committed at that moment.
ClearCart(r, ok) ==
  /\ co[r].pc = "clearCart"
  /\ {c.id : c \in cart} \cap LockedByOthers(r) = {}
  /\ IF ~ok
       THEN /\ co' = Throw(r, ClearCartFailed)
            /\ tx' = Abort(r)
       ELSE /\ tx' = [tx EXCEPT ![r] = [@ EXCEPT !.cartDel = {c.id : c \in cart}]]
            /\ co' = [co EXCEPT ![r] = [@ EXCEPT !.pc = "payCall"]]
  /\ UNCHANGED <<products, cart, cartSeq, orders, order_items, orderSeq, adder, budget, payments, paySeq, pay, cartItems>>

\* axios.post(.../payments) is sent: the handler waits for the answer.
PayCall(r) ==
  /\ co[r].pc = "payCall"
  /\ co' = [co EXCEPT ![r] = [@ EXCEPT !.pc = "paying", !.payCalls = @ + 1]]
  /\ UNCHANGED <<products, cart, cartSeq, orders, order_items, orderSeq, tx, adder, budget, payments, paySeq, pay, cartItems>>

\* What the handler can observe of the payment call.  The endpoint is an
\* external collaborator; the payment service of this repository answers 201
\* with status success or failed only after its own INSERT INTO payments,
\* whose order_id references orders(id), and any failure of it with 500.
PaymentOutcomes == {"success", "failed", "error"}

\* PayReturn that sends the payment call once more after a rejected call.
PayReturnRetry(r, outcome) ==
  /\ co[r].pc = "paying"
  /\ co' = [co EXCEPT ![r] =
              [@ EXCEPT !.payment = outcome,
                        !.pc = IF outcome = "success" THEN "update"
                               ELSE IF outcome = "error" /\ co[r].payCalls = 1 THEN "payCall"
                               ELSE "commit"]]
  /\ UNCHANGED <<products, cart, cartSeq, orders, order_items, orderSeq, tx, adder, budget, payments, paySeq, pay, cartItems>>

\* PayReturn testing for a 2xx answer instead of the status success.
PayReturnAny2xx(r, outcome) ==
  /\ co[r].pc = "paying"
  /\ co' = [co EXCEPT ![r] = [@ EXCEPT !.payment = outcome,
                                        !.pc = IF outcome # "error" THEN "update" ELSE "commit"]]
  /\ UNCHANGED <<products, cart, cartSeq, orders, order_items, orderSeq, tx, adder, budget, payments, paySeq, pay, cartItems>>

\* The answer of the payment call: only the status success leads to the
\* status update; a rejected call lands in the catch, which only logs.
PayReturn(r, outcome) ==
  /\ co[r].pc = "paying"
  /\ co' = [co EXCEPT ![r] = [@ EXCEPT !.payment = outcome,
                                        !.pc = IF outcome = "success" THEN "update" ELSE "commit"]]
  /\ UNCHANGED <<products, cart, cartSeq, orders, order_items, orderSeq, tx, adder, budget, payments, paySeq, pay, cartItems>>

\* UpdateStatus without its WHERE clause: every order the transaction can
\* see is set to processing.
UpdateStatusAllRows(r, ok) ==
  /\ co[r].pc = "update"
  /\ IF ~ok
       THEN /\ tx' = Abort(r)
            /\ co' = [co EXCEPT ![r] = [@ EXCEPT !.statusUpdate = "failed", !.pc = "commit"]]
       ELSE /\ tx' = [tx EXCEPT ![r] = [@ EXCEPT !.orders =
                        [id \in DOMAIN @ \cup DOMAIN orders |->
                           [(@ @@ orders)[id] EXCEPT !.status = "processing"]]]]
            /\ co' = [co EXCEPT ![r] = [@ EXCEPT !.statusUpdate = "ok", !.pc = "commit"]]
  /\ UNCHANGED <<products, cart, cartSeq, orders, order_items, orderSeq, adder, budget, payments, paySeq, pay, cartItems>>

\* UpdateStatus with a WHERE clause that matches no row.
UpdateStatusNoRow(r, ok) ==
  /\ co[r].pc = "update"
  /\ IF ~ok
       THEN /\ tx' = Abort(r)
            /\ co' = [co EXCEPT ![r] = [@ EXCEPT !.statusUpdate = "failed", !.pc = "commit"]]
       ELSE /\ tx' = tx
            /\ co' = [co EXCEPT ![r] = [@ EXCEPT !.statusUpdate = "ok", !.pc = "commit"]]
  /\ UNCHANGED <<products, cart, cartSeq, orders, order_items, orderSeq, adder, budget, payments, paySeq, pay, cartItems>>

\* UPDATE orders SET status = 'processing' WHERE id = order.id, inside the
\* transaction; its failure is rethrown into the payment catch and logged.
UpdateStatus(r, ok) ==
  /\ co[r].pc = "update"
  /\ IF ~ok
       THEN /\ tx' = Abort(r)
            /\ co' = [co EXCEPT ![r] = [@ EXCEPT !.statusUpdate = "failed", !.pc = "commit"]]
       ELSE /\ tx' = [tx EXCEPT ![r] = [@ EXCEPT !.orders =
                        [id \in DOMAIN @ |-> IF id = co[r].order.id
                                               THEN [@[id] EXCEPT !.status = "processing"]
                                               ELSE @[id]]]]
            /\ co' = [co EXCEPT ![r] = [@ EXCEPT !.statusUpdate = "ok", !.pc = "commit"]]
  /\ UNCHANGED <<products, cart, cartSeq, orders, order_items, orderSeq, adder, budget, payments, paySeq, pay, cartItems>>

\* COMMIT, then res.status(201).json(order) (no await in between).  An open
\* transaction becomes visible as a whole; an aborted one is rolled back by
\* the same COMMIT, which still answers without error.  A failing COMMIT
\* leaves nothing behind and throws.
Commit(r, ok) ==
  /\ co[r].pc = "commit"
  /\ IF ~ok
       THEN /\ co' = Throw(r, CommitFailed)
            /\ UNCHANGED <<orders, order_items, cart>>
       ELSE /\ co' = [co EXCEPT ![r] = [@ EXCEPT !.pc = "done", !.res = 201,
                                                   !.released = @ + 1]]
            /\ IF tx[r].state = "open"
                 THEN /\ orders' = tx[r].orders @@ orders
                      /\ order_items' = order_items \cup tx[r].items
                      /\ cart' = {c \in cart : c.id \notin tx[r].cartDel}
                 ELSE UNCHANGED <<orders, order_items, cart>>
  /\ tx' = [tx EXCEPT ![r] = NoTx]
  /\ UNCHANGED <<products, cartSeq, orderSeq, adder, budget, payments, paySeq, pay, cartItems>>

\* The handler's catch: ROLLBACK (its own failure is only logged), then
\* res.status(500), then the release of the client in the finally.
Rollback(r, ok) ==
  /\ co[r].pc = "rollback"
  /\ co[r].handler = "part_000"
  /\ tx' = [tx EXCEPT ![r] = NoTx]
  /\ co' = [co EXCEPT ![r] = [@ EXCEPT !.pc = "done", !.res = 500, !.released = @ + 1]]
  /\ UNCHANGED <<products, cart, cartSeq, orders, order_items, orderSeq, adder, budget, payments, paySeq, pay, cartItems>>

\* The catch of the other version: its ROLLBACK is awaited outside any try,
\* so a failing ROLLBACK throws out of the catch before res.status(500) is
\* reached; the finally still releases the client, and the rejection of the
\* handler's promise reaches nobody that would answer the request.
Rollback001(r, ok) ==
  /\ co[r].pc = "rollback"
  /\ co[r].handler = "part_001"
  /\ tx' = [tx EXCEPT ![r] = NoTx]
  /\ co' = [co EXCEPT ![r] = [@ EXCEPT !.pc = "done", !.res = IF ok THEN 500 ELSE 0,
                                        !.released = @ + 1]]
  /\ UNCHANGED <<products, cart, cartSeq, orders, order_items, orderSeq, adder, budget, payments, paySeq, pay, cartItems>>

\* ---------------------------------------------------- PUT /orders/:id/status
\* The answer of PUT /orders/:id/status.
PutOrderStatusRes(id, status) ==
  IF status \notin ValidStatuses THEN 400
  ELSE IF id \notin DOMAIN orders THEN 404
  ELSE 200

\* PutOrderStatus without the validStatuses test.
PutOrderStatusUnchecked(id, status) ==
  /\ IF id \in DOMAIN orders
       THEN orders' = [orders EXCEPT ![id] = [@ EXCEPT !.status = status]]
       ELSE orders' = orders
  /\ UNCHANGED <<products, cart, cartSeq, order_items, orderSeq, tx, co, adder, budget, payments, paySeq, pay, cartItems>>

\* One autocommitted UPDATE ... WHERE id = $2; an invalid status answers 400
\* and an id with no committed row answers 404, both without a write.
PutOrderStatus(id, status) ==
  /\ IF PutOrderStatusRes(id, status) = 200
       THEN orders' = [orders EXCEPT ![id] = [@ EXCEPT !.status = status]]
       ELSE orders' = orders
  /\ UNCHANGED <<products, cart, cartSeq, order_items, orderSeq, tx, co, adder, budget, payments, paySeq, pay, cartItems>>

\* --------------------------------------------------------- PUT /products/:id
\* PutProduct that also brings the total of every stored order up to the new
\* price.
PutProductRetotal(p, price) ==
  /\ products' = [products EXCEPT ![p] = price]
  /\ LET RECURSIVE Total(_)
         Total(S) == IF S = {} THEN 0
                     ELSE LET l == CHOOSE x \in S : TRUE
                          IN l.quantity * (IF l.product_id = p THEN price ELSE l.price)
                               + Total(S \ {l})
     IN orders' = [id \in DOMAIN orders |->
                     [orders[id] EXCEPT !.total_amount =
                        Total({l \in order_items : l.order_id = id})]]
  /\ UNCHANGED <<cart, cartSeq, order_items, orderSeq, tx, co, adder, budget, payments, paySeq, pay, cartItems>>

\* UPDATE products SET ... price = $3 ... WHERE id = $6, autocommitted.
PutProduct(p, price) ==
  /\ products' = [products EXCEPT ![p] = price]
  /\ UNCHANGED <<cart, cartSeq, orders, order_items, orderSeq, tx, co, adder, budget, payments, paySeq, pay, cartItems>>

\* ------------------------------------------------------------ POST /cart/add
\* Up to MaxCartAdds requests, which may overlap: each is served by the
\* lowest handler that is free.
\* SELECT ... WHERE user_id = 1 AND product_id = $2 (rows deleted by an open
\* transaction are still seen: the delete is not committed).
CartAddSelect(a, productId, quantity) ==
  /\ adder[a].pc = "idle"
  /\ \A b \in Adders : b < a => adder[b].pc # "idle"
  /\ budget.adds > 0
  /\ budget' = [budget EXCEPT !.adds = @ - 1]
  /\ adder' = [adder EXCEPT ![a] =
                 [pc |-> "write", productId |-> productId, quantity |-> quantity,
                  found |-> \E c \in cart : c.product_id = productId]]
  /\ UNCHANGED <<products, cart, cartSeq, orders, order_items, orderSeq, tx, co, payments, paySeq, pay, cartItems>>

\* then UPDATE cart SET quantity = quantity + $1 WHERE user_id = 1 AND
\* product_id = $3 when a row was found (every row of the product is
\* updated; the statement waits for an open transaction that has deleted
\* one of them), INSERT INTO cart otherwise.
CartAddWrite(a) ==
  /\ adder[a].pc = "write"
  /\ IF adder[a].found
       THEN /\ {c.id : c \in {d \in cart : d.product_id = adder[a].productId}}
                 \cap UNION {tx[q].cartDel : q \in Reqs} = {}
            /\ cart' = {IF c.product_id = adder[a].productId
                          THEN [c EXCEPT !.quantity = @ + adder[a].quantity]
                          ELSE c : c \in cart}
            /\ cartSeq' = cartSeq
       ELSE /\ cart' = cart \cup {[id |-> cartSeq, product_id |-> adder[a].productId,
                                    quantity |-> adder[a].quantity]}
            /\ cartSeq' = cartSeq + 1
  /\ adder' = [adder EXCEPT ![a] = IdleAdder]
  /\ UNCHANGED <<products, orders, order_items, orderSeq, tx, co, budget, payments, paySeq, pay, cartItems>>

\* ------------------------------------------------------ DELETE /cart/:productId
\* DELETE FROM cart WHERE user_id = 1 AND product_id = $2, autocommitted: it
\* waits for an open transaction that has deleted one of the rows; without a
\* matching row it answers 404.
CartRemove(productId) ==
  /\ {c.id : c \in {d \in cart : d.product_id = productId}}
       \cap UNION {tx[q].cartDel : q \in Reqs} = {}
  /\ cart' = {c \in cart : c.product_id # productId}
  /\ UNCHANGED <<products, cartSeq, orders, order_items, orderSeq, tx, co, adder, budget,
                 payments, paySeq, pay, cartItems>>

\* ------------------------------------------------------ the cart page (Cart.js)
\* The rows of GET /cart as a list, in the order of their ids.
RECURSIVE CartRows(_)
CartRows(rows) ==
  IF rows = {} THEN <<>>
  ELSE LET c == CHOOSE x \in rows : \A y \in rows : x.id <= y.id
       IN <<It(c.product_id, c.quantity)>> \o CartRows(rows \ {c})

\* fetchCartItems: the page keeps the answer of GET /cart.
FetchCartItems ==
  /\ cartItems' = CartRows(cart)
  /\ UNCHANGED <<products, cart, cartSeq, orders, order_items, orderSeq, tx, co, adder, budget,
                 payments, paySeq, pay>>

\* checkout: the page posts the items it holds, without a shipping_address.
Checkout(r) == Start(r, Body(TRUE, cartItems, "missing"))

\* ------------------------------------------------------------ POST /payments
\* The payment service, on the same database.  Its requests come from any
\* client: the request a checkout sends is one of them.  A missing order_id
\* or amount is 0 here; !amount is also true of the amount 0.
PaymentBody(o, a) == [order_id |-> o, amount |-> a]
PaymentBodies ==
  { PaymentBody(1, 5998), PaymentBody(2, 5998), PaymentBody(0, 5998),
    PaymentBody(1, 0), PaymentBody(1, -5998) }

\* The request arrives and is validated: 400 without order_id or amount, and
\* for an amount that is not greater than 0.
PostPayment(s, body) ==
  /\ pay[s].pc = "idle"
  /\ \A q \in PayReqs : q < s => pay[q].pc # "idle"
  /\ IF body.order_id = 0 \/ body.amount = 0 \/ body.amount <= 0
       THEN pay' = [pay EXCEPT ![s] = [@ EXCEPT !.pc = "done", !.order_id = body.order_id,
                                                !.amount = body.amount, !.res = 400]]
       ELSE pay' = [pay EXCEPT ![s] = [@ EXCEPT !.pc = "process", !.order_id = body.order_id,
                                                !.amount = body.amount]]
  /\ UNCHANGED <<products, cart, cartSeq, orders, order_items, orderSeq, tx, co, adder, budget,
                 payments, paySeq, cartItems>>

\* processPayment: the simulated processor answers success or failed and
\* names the transaction (one fresh name per request).
ProcessPayment(s, isSuccess) ==
  /\ pay[s].pc = "process"
  /\ pay' = [pay EXCEPT ![s] = [@ EXCEPT !.pc = "insert",
                                          !.status = IF isSuccess THEN "success" ELSE "failed"]]
  /\ UNCHANGED <<products, cart, cartSeq, orders, order_items, orderSeq, tx, co, adder, budget,
                 payments, paySeq, cartItems>>

\* INSERT INTO payments ... RETURNING *, autocommitted, then the 201 answer;
\* the catch answers 500.  The insert fails when the store fails and when
\* order_id names no committed order (FOREIGN KEY ... REFERENCES orders(id));
\* the sequence value taken by a row that violates the reference is lost.
StorePayment(s, ok) ==
  /\ pay[s].pc = "insert"
  /\ IF ok /\ pay[s].order_id \in DOMAIN orders
       THEN /\ payments' = payments \cup
                   {[id |-> paySeq, order_id |-> pay[s].order_id, transaction_id |-> s,
                     amount |-> pay[s].amount, status |-> pay[s].status]}
            /\ paySeq' = paySeq + 1
            /\ pay' = [pay EXCEPT ![s] = [@ EXCEPT !.pc = "done", !.res = 201,
                          !.body = [status |-> pay[s].status, amount |-> pay[s].amount,
                                    transaction_id |-> s]]]
       ELSE /\ pay' = [pay EXCEPT ![s] = [@ EXCEPT !.pc = "done", !.res = 500]]
            /\ payments' = payments
            /\ paySeq' = IF ok THEN paySeq + 1 ELSE paySeq
  /\ UNCHANGED <<products, cart, cartSeq, orders, order_items, orderSeq, tx, co, adder, budget, cartItems>>

\* The catalog rows whose price is changed while checkouts run.
Repriced == {2}

\* The next step of the handler of checkout r.
StepOf(r) ==
  \/ \E ok \in BOOLEAN : Begin(r, ok)
  \/ \E found \in BOOLEAN : Lookup(r, found)
  \/ \E ok \in BOOLEAN : InsertOrder(r, ok)
  \/ \E ok \in BOOLEAN : InsertItem(r, ok)
  \/ \E ok \in BOOLEAN : ClearCart(r, ok)
  \/ PayCall(r)
  \/ \E outcome \in PaymentOutcomes : PayReturn(r, outcome)
  \/ \E ok \in BOOLEAN : UpdateStatus(r, ok)
  \/ \E ok \in BOOLEAN : Commit(r, ok)
  \/ \E ok \in BOOLEAN : Rollback(r, ok)
  \/ \E ok \in BOOLEAN : Rollback001(r, ok)

Next ==
  \/ \E r \in Reqs, body \in Bodies : Start(r, body)
  \/ \E r \in Reqs, ok \in BOOLEAN : Begin(r, ok)
  \/ \E r \in Reqs, found \in BOOLEAN : Lookup(r, found)
  \/ \E r \in Reqs, ok \in BOOLEAN : InsertOrder(r, ok)
  \/ \E r \in Reqs, ok \in BOOLEAN : InsertItem(r, ok)
  \/ \E r \in Reqs, ok \in BOOLEAN : ClearCart(r, ok)
  \/ \E r \in Reqs : PayCall(r)
  \/ \E r \in Reqs, outcome \in PaymentOutcomes : PayReturn(r, outcome)
  \/ \E r \in Reqs, ok \in BOOLEAN : UpdateStatus(r, ok)
  \/ \E r \in Reqs, ok \in BOOLEAN : Commit(r, ok)
  \/ \E r \in Reqs, ok \in BOOLEAN : Rollback(r, ok)
  \/ \E id \in 1..MaxCheckouts, status \in RequestStatuses : PutOrderStatus(id, status)
  \/ \E p \in Repriced, price \in Prices : PutProduct(p, price)

\* Checkouts, the status endpoint and the catalog.
Spec == Init /\ [][Next]_vars

NextCart ==
  \/ \E r \in Reqs, body \in Bodies : Start(r, body)
  \/ \E r \in Reqs, ok \in BOOLEAN : Begin(r, ok)
  \/ \E r \in Reqs, found \in BOOLEAN : Lookup(r, found)
  \/ \E r \in Reqs, ok \in BOOLEAN : InsertOrder(r, ok)
  \/ \E r \in Reqs, ok \in BOOLEAN : InsertItem(r, ok)
  \/ \E r \in Reqs, ok \in BOOLEAN : ClearCart(r, ok)
  \/ \E r \in Reqs : PayCall(r)
  \/ \E r \in Reqs, outcome \in PaymentOutcomes : PayReturn(r, outcome)
  \/ \E r \in Reqs, ok \in BOOLEAN : UpdateStatus(r, ok)
  \/ \E r \in Reqs, ok \in BOOLEAN : Commit(r, ok)
  \/ \E r \in Reqs, ok \in BOOLEAN : Rollback(r, ok)
  \/ \E a \in Adders, p \in Products : CartAddSelect(a, p, 1)
  \/ \E a \in Adders : CartAddWrite(a)

\* Checkouts and the cart.
SpecCart == Init /\ [][NextCart]_vars

NextPay ==
  \/ \E r \in Reqs, body \in Bodies : Start(r, body)
  \/ \E r \in Reqs, ok \in BOOLEAN : Begin(r, ok)
  \/ \E r \in Reqs, found \in BOOLEAN : Lookup(r, found)
  \/ \E r \in Reqs, ok \in BOOLEAN : InsertOrder(r, ok)
  \/ \E r \in Reqs, ok \in BOOLEAN : InsertItem(r, ok)
  \/ \E r \in Reqs, ok \in BOOLEAN : ClearCart(r, ok)
  \/ \E r \in Reqs : PayCall(r)
  \/ \E r \in Reqs, outcome \in PaymentOutcomes : PayReturn(r, outcome)
  \/ \E r \in Reqs, ok \in BOOLEAN : UpdateStatus(r, ok)
  \/ \E r \in Reqs, ok \in BOOLEAN : Commit(r, ok)
  \/ \E r \in Reqs, ok \in BOOLEAN : Rollback(r, ok)
  \/ \E s \in PayReqs, body \in PaymentBodies : PostPayment(s, body)
  \/ \E s \in PayReqs, isSuccess \in BOOLEAN : ProcessPayment(s, isSuccess)
  \/ \E s \in PayReqs, ok \in BOOLEAN : StorePayment(s, ok)

\* Checkouts and the payment service.
SpecPay == Init /\ [][NextPay]_vars

NextShop ==
  \/ FetchCartItems
  \/ \E r \in Reqs : Checkout(r)
  \/ \E r \in Reqs, ok \in BOOLEAN : Begin(r, ok)
  \/ \E r \in Reqs, found \in BOOLEAN : Lookup(r, found)
  \/ \E r \in Reqs, ok \in BOOLEAN : InsertOrder(r, ok)
  \/ \E r \in Reqs, ok \in BOOLEAN : InsertItem(r, ok)
  \/ \E r \in Reqs, ok \in BOOLEAN : ClearCart(r, ok)
  \/ \E r \in Reqs : PayCall(r)
  \/ \E r \in Reqs, outcome \in PaymentOutcomes : PayReturn(r, outcome)
  \/ \E r \in Reqs, ok \in BOOLEAN : UpdateStatus(r, ok)
  \/ \E r \in Reqs, ok \in BOOLEAN : Commit(r, ok)
  \/ \E r \in Reqs, ok \in BOOLEAN : Rollback(r, ok)
  \/ \E a \in Adders, p \in Products : CartAddSelect(a, p, 1)
  \/ \E a \in Adders : CartAddWrite(a)
  \/ \E p \in Products : CartRemove(p)

\* The cart page, the cart and the checkouts the page starts.
SpecShop == Init /\ [][NextShop]_vars

NextLive ==
  \/ \E r \in Reqs, body \in Bodies : Start(r, body)
  \/ \E r \in Reqs, body \in Bodies : Start001(r, body)
  \/ \E r \in Reqs, ok \in BOOLEAN : Begin(r, ok)
  \/ \E r \in Reqs, found \in BOOLEAN : Lookup(r, found)
  \/ \E r \in Reqs, ok \in BOOLEAN : InsertOrder(r, ok)
  \/ \E r \in Reqs, ok \in BOOLEAN : InsertItem(r, ok)
  \/ \E r \in Reqs, ok \in BOOLEAN : ClearCart(r, ok)
  \/ \E r \in Reqs : PayCall(r)
  \/ \E r \in Reqs, outcome \in PaymentOutcomes : PayReturn(r, outcome)
  \/ \E r \in Reqs, ok \in BOOLEAN : UpdateStatus(r, ok)
  \/ \E r \in Reqs, ok \in BOOLEAN : Commit(r, ok)
  \/ \E r \in Reqs, ok \in BOOLEAN : Rollback(r, ok)
  \/ \E r \in Reqs, ok \in BOOLEAN : Rollback001(r, ok)

\* Checkouts served by either version of the service.  Every call a handler
\* awaits returns or fails, and the event loop then runs the handler's next
\* step: a step of a checkout that stays possible is eventually taken.
SpecLive == Init /\ [][NextLive]_vars /\ \A r \in Reqs : WF_vars(StepOf(r))
\* ------------------------------------------------------------------ claims
\* What GET /orders and GET /orders/:id of any other request can see.
Visible(id) == id \in DOMAIN orders
LinesOf(id) == {l \in order_items : l.order_id = id}
OrderId(r) == co[r].order.id
\* One committed order line per item of the request of r, in item order.
HasItsLines(r) ==
  /\ Cardinality(LinesOf(OrderId(r))) = Len(co[r].items)
  /\ \A n \in 1..Len(co[r].items) :
       \E l \in LinesOf(OrderId(r)) :
         /\ l.line = n
         /\ l.product_id = co[r].items[n].product_id
         /\ l.quantity = co[r].items[n].quantity
RECURSIVE SumLines(_)
SumLines(S) ==
  IF S = {} THEN 0
  ELSE LET l == CHOOSE x \in S : TRUE IN l.quantity * l.price + SumLines(S \ {l})
\* The step in which the handler of r sends its response.
Responds(r) == co[r].pc # "done" /\ co'[r].pc = "done"

\* C1: in every committed (visible) store state, the order of a checkout
\* exists if and only if one order line per request item exists for it, and
\* no order line exists without its order.
C1_OrderAndLinesTogether ==
  /\ \A r \in Reqs :
       OrderId(r) # 0 =>
         IF Visible(OrderId(r)) THEN HasItsLines(r) ELSE LinesOf(OrderId(r)) = {}
  /\ \A l \in order_items : Visible(l.order_id)
C1_Witness ==
  \E r \in Reqs : Visible(OrderId(r)) /\ Len(co[r].items) = 2 /\ HasItsLines(r)

\* C2: a checkout that answers 201 has produced exactly one order row and
\* one order line per item, and the order's total_amount is the sum of
\* quantity * price over those lines, price being the price looked up.
C2_OneOrderWithExactTotal ==
  \A r \in Reqs :
    co[r].res = 201 =>
      /\ Visible(OrderId(r))
      /\ HasItsLines(r)
      /\ \A l \in LinesOf(OrderId(r)) : l.price = co[r].orderItems[l.line].price
      /\ orders[OrderId(r)].total_amount = SumLines(LinesOf(OrderId(r)))

\* C3: while the payment call is in flight no local transaction is open and
\* the order is already committed.
C3_PaymentAfterCommit ==
  \A r \in Reqs :
    co[r].pc = "paying" => tx[r].state = "none" /\ Visible(OrderId(r))

\* C4: while the payment call is pending the order is visible to other
\* requests, in status pending.
C4_PendingOrderVisibleWhilePaying ==
  \A r \in Reqs :
    co[r].pc = "paying" =>
      Visible(OrderId(r)) /\ orders[OrderId(r)].status = "pending"

\* C5: whenever the checkout has set its order's status to processing, its
\* payment call returned the status success before.
C5_ProcessingOnlyAfterSuccess ==
  \A r \in Reqs :
    (\/ co[r].statusUpdate = "ok"
     \/ \E id \in DOMAIN tx[r].orders : tx[r].orders[id].status = "processing")
      => co[r].payment = "success"
C5_Witness ==
  \E r \in Reqs :
    /\ co[r].statusUpdate = "ok"
    /\ OrderId(r) \in DOMAIN tx[r].orders
    /\ tx[r].orders[OrderId(r)].status = "processing"

\* C6 as claimed: no step of the order service takes a stored order from
\* processing back to pending.
C6_NeverRevertsToPending ==
  [][\A id \in DOMAIN orders :
       orders[id].status = "processing" => orders'[id].status # "pending"]_vars
\* C6 as amended: a step that takes a stored order from processing back to
\* pending is a PUT /orders/:id/status with status pending, never a step of
\* the checkout.
C6_OnlyPutRevertsToPending ==
  [][\A id \in DOMAIN orders :
       (orders[id].status = "processing" /\ orders'[id].status = "pending")
         => PutOrderStatus(id, "pending")]_vars
C6_Witness ==
  \E r \in Reqs, q \in Reqs :
    /\ co[r].res = 201 /\ co[r].statusUpdate = "ok"
    /\ Visible(OrderId(r)) /\ orders[OrderId(r)].status = "processing"
    /\ q # r /\ co[q].res = 201 /\ Visible(OrderId(q))

\* C7: if the payment service answers failed, the checkout responds 201 and
\* the order is stored with its lines in status pending.
C7_DeclinedStillCreated ==
  [][\A r \in Reqs :
       (Responds(r) /\ co[r].payment = "failed") =>
         /\ co'[r].res = 201
         /\ Visible(OrderId(r))' /\ HasItsLines(r)'
         /\ orders'[OrderId(r)].status = "pending"]_vars

\* C8: if the payment call is rejected, the checkout responds 201, the order,
\* its lines and the cart deletion are kept, and the stored status is pending.
C8_PaymentErrorAbsorbed ==
  [][\A r \in Reqs :
       (Responds(r) /\ co[r].payment = "error") =>
         /\ co'[r].res = 201
         /\ Visible(OrderId(r))' /\ HasItsLines(r)'
         /\ {c.id : c \in cart'} \cap tx[r].cartDel = {}
         /\ orders'[OrderId(r)].status = "pending"]_vars

\* C9: if the payment returned success and the status update succeeded
\* (statement and commit), the stored status is processing when the checkout
\* responds.
C9_ProcessingAfterSuccess ==
  [][\A r \in Reqs :
       (Responds(r) /\ co'[r].res = 201 /\ co[r].payment = "success"
          /\ co[r].statusUpdate = "ok") =>
         Visible(OrderId(r))' /\ orders'[OrderId(r)].status = "processing"]_vars
C9_Witness ==
  \E r \in Reqs :
    /\ co[r].res = 201 /\ co[r].payment = "success" /\ co[r].statusUpdate = "ok"
    /\ Visible(OrderId(r)) /\ orders[OrderId(r)].status = "processing"

\* C10: the status in the body of the 201 response equals the stored status
\* of that order at the time of the response.
C10_ResponseCarriesStoredStatus ==
  [][\A r \in Reqs :
       (Responds(r) /\ co'[r].res = 201 /\ Visible(OrderId(r))') =>
         co'[r].order.status = orders'[OrderId(r)].status]_vars

\* C11: if the payment returned success and the status update statement
\* failed, the checkout responds 201 and the order, its lines and the cart
\* deletion stay persisted, the stored status being pending.
C11_FailedStatusUpdateKeepsOrder ==
  [][\A r \in Reqs :
       (Responds(r) /\ co[r].payment = "success" /\ co[r].statusUpdate = "failed") =>
         /\ co'[r].res = 201
         /\ Visible(OrderId(r))' /\ HasItsLines(r)'
         /\ {c.id : c \in cart'} \cap tx[r].cartDel = {}
         /\ orders'[OrderId(r)].status = "pending"]_vars

\* C12: a checkout one of whose product lookups failed ends as a request
\* failure (500) without a payment call, and no step of it writes an order,
\* an order line or a cart deletion, inside or outside its transaction.
C12_LookupFailureLeavesStoreUnchanged ==
  [][\A r \in Reqs :
       co'[r].error = ProcessProductFailed =>
         /\ co'[r].pc \in {"rollback", "done"}
         /\ co'[r].pc = "done" => co'[r].res = 500
         /\ co'[r].payCalls = 0
         /\ OrderId(r)' = 0
         /\ tx'[r].orders = EmptyRows /\ tx'[r].items = {} /\ tx'[r].cartDel = {}
         /\ co'[r] # co[r] => UNCHANGED <<orders, order_items, cart>>]_vars
\* The lookup of the second item failed after the first had succeeded, with
\* rows in the cart.
C12_Witness ==
  \E r \in Reqs :
    /\ co[r].error = ProcessProductFailed /\ co[r].res = 500
    /\ co[r].i = 2 /\ Len(co[r].orderItems) = 1
    /\ cart # {}

CartIds(rows) == {c.id : c \in rows}
\* The step in which the order of r becomes visible to other requests.
Persists(r) == OrderId(r) # 0 /\ ~Visible(OrderId(r)) /\ Visible(OrderId(r))'

\* C13: the DELETE of a checkout takes every cart row of the owner; the rows
\* it took leave the cart in the step that makes the order visible, and a
\* cart row leaves the cart in no other step.
C13_CartClearedIffOrderPersisted ==
  [][/\ \A r \in Reqs :
          /\ (co[r].pc = "clearCart" /\ co'[r].pc = "payCall")
                => tx'[r].cartDel = CartIds(cart)
          /\ Persists(r) => CartIds(cart') \cap tx[r].cartDel = {}
     /\ \A c \in cart :
          c.id \notin CartIds(cart') =>
            \E r \in Reqs : Persists(r) /\ c.id \in tx[r].cartDel]_vars
\* A checkout has persisted its order and taken two cart rows with it.
C13_Witness ==
  \E r \in Reqs :
    /\ co[r].res = 201 /\ Visible(OrderId(r))
    /\ cartSeq > 2 /\ cart = {}

\* C14: when a checkout responds 201 the cart of the owner is empty,
\* whatever the outcome of the payment call.
C14_CartEmptyAfter201 ==
  [][\A r \in Reqs : (Responds(r) /\ co'[r].res = 201) => cart' = {}]_vars

\* C15: a checkout whose items list is missing or empty is answered with
\* 400, and it writes nothing and calls neither the catalog nor the payment
\* endpoint.  (A request whose BEGIN failed never reads its items.)
C15_EmptyItemsRejectedWith400 ==
  \A r \in Reqs :
    (/\ co[r].pc = "done"
     /\ ~co[r].hasItems \/ Len(co[r].items) = 0
     /\ co[r].error # StartTransactionFailed) =>
      /\ co[r].res = 400
      /\ OrderId(r) = 0 /\ co[r].orderItems = <<>> /\ co[r].payCalls = 0

\* The errors thrown for a failed statement of the creation transaction.
StoreErrors == {CreateOrderFailed, CreateOrderItemFailed, ClearCartFailed, CommitFailed}

\* C16: once the order insert, a line insert, the cart delete or the COMMIT
\* of a checkout has failed, the checkout ends with 500 and the message of
\* that failure, its order and its lines are never visible, and no step of it
\* changes the cart.
C16_StoreFailureLeavesNothing ==
  [][\A r \in Reqs :
       co'[r].error \in StoreErrors =>
         /\ co'[r].pc \in {"rollback", "done"}
         /\ co'[r].pc = "done" => co'[r].res = 500
         /\ ~Visible(OrderId(r))' /\ LinesOf(OrderId(r))' = {}
         /\ co'[r] # co[r] => cart' = cart]_vars
\* The COMMIT failed after the order, its lines and the deletion of a cart
\* row had been written in the transaction.
C16_Witness ==
  \E r \in Reqs :
    /\ co[r].error = CommitFailed /\ co[r].res = 500
    /\ OrderId(r) # 0 /\ Len(co[r].orderItems) = 2
    /\ cartSeq > 1 /\ cart # {} /\ budget.adds = MaxCartAdds - 1

\* The step in which the payment service answers request s.
PayResponds(s) == pay[s].pc # "done" /\ pay'[s].pc = "done"

\* C17: a POST /payments request with an order_id and an amount greater
\* than 0 is answered 201 with status success or failed and a transaction
\* id, and its answer comes with exactly one new payments row carrying the
\* order_id of the request and the amount and status of the answer.
C17_PaymentAnswered201AndStored ==
  [][\A s \in PayReqs :
       (PayResponds(s) /\ pay[s].order_id # 0 /\ pay[s].amount > 0) =>
         /\ pay'[s].res = 201
         /\ pay'[s].body.status \in {"success", "failed"}
         /\ pay'[s].body.transaction_id # 0
         /\ \E row \in payments' :
              /\ payments' \ payments = {row}
              /\ row.order_id = pay[s].order_id
              /\ row.amount = pay'[s].body.amount
              /\ row.status = pay'[s].body.status]_vars

\* C18: every stored order, committed or still inside its transaction, has
\* one of the five statuses; the INSERT of a checkout writes pending; a PUT
\* /orders/:id/status with any other value answers 400 and changes no order.
C18_StatusAlwaysValid ==
  [][/\ \A id \in DOMAIN orders' : orders'[id].status \in ValidStatuses
     /\ \A r \in Reqs :
          /\ \A id \in DOMAIN tx'[r].orders : tx'[r].orders[id].status \in ValidStatuses
          /\ (co[r].pc = "insertOrder" /\ co'[r].pc = "insertItems")
                => tx'[r].orders[OrderId(r)'].status = "pending"
     /\ \A id \in 1..MaxCheckouts, status \in RequestStatuses \ ValidStatuses :
          PutOrderStatus(id, status) =>
            PutOrderStatusRes(id, status) = 400 /\ orders' = orders]_vars
\* PUT /orders/:id/status has moved an order on to delivered.
C18_Witness ==
  \E id \in DOMAIN orders : orders[id].status = "delivered"

\* C19: no step changes the total_amount of a stored order, committed or
\* inside its transaction, and no step removes a committed order.
C19_TotalAmountImmutable ==
  [][/\ \A id \in DOMAIN orders :
          id \in DOMAIN orders' /\ orders'[id].total_amount = orders[id].total_amount
     /\ \A r \in Reqs : \A id \in DOMAIN tx[r].orders :
          /\ id \in DOMAIN tx'[r].orders => tx'[r].orders[id].total_amount = tx[r].orders[id].total_amount
          /\ id \in DOMAIN orders' => orders'[id].total_amount = tx[r].orders[id].total_amount]_vars
\* An order priced at 29.99 a piece has been paid, advanced to processing
\* and then shipped, and the catalog price is 34.99 now.
C19_Witness ==
  \E r \in Reqs :
    /\ Visible(OrderId(r)) /\ co[r].statusUpdate = "ok"
    /\ orders[OrderId(r)].status = "shipped"
    /\ co[r].items = <<It(2, 2)>> /\ orders[OrderId(r)].total_amount = 2 * SeedPrice[2]
    /\ products[2] # SeedPrice[2]

\* ----------------------------------------------------------- GET /orders/:id
\* The row object the database driver builds from the columns of a result
\* row: one key per column name, a later column of the same name replacing
\* the earlier one.
RowObject(cols) ==
  [n \in {cols[i][1] : i \in DOMAIN cols} |->
     cols[CHOOSE i \in DOMAIN cols :
            /\ cols[i][1] = n
            /\ \A j \in DOMAIN cols : cols[j][1] = n => j <= i][2]]
\* SELECT oi.*, p.name, p.price FROM order_items oi JOIN products p
\* ON oi.product_id = p.id: the columns of one result row, in select order
\* (the product name is not modelled).
ItemColumns(l) ==
  << <<"id", l.line>>, <<"order_id", l.order_id>>, <<"product_id", l.product_id>>,
     <<"quantity", l.quantity>>, <<"price", l.price>>,
     <<"price", products[l.product_id]>> >>
\* The items of the answer of GET /orders/:id.
GetOrderItems(id) == {RowObject(ItemColumns(l)) : l \in LinesOf(id)}

\* C20: the stored lines of a visible order carry the prices the checkout
\* looked up, whatever the catalog says now, no step changes or removes a
\* stored line, and GET /orders/:id shows each line at the price looked up.
C20_LinePriceFrozen ==
  [][/\ order_items \subseteq order_items'
     /\ \A r \in Reqs :
          Visible(OrderId(r))' =>
            /\ \A l \in LinesOf(OrderId(r))' : l.price = co'[r].orderItems[l.line].price
            /\ \A row \in GetOrderItems(OrderId(r))' :
                 row.price = co'[r].orderItems[row.id].price]_vars

\* C21: in every reachable state the cart holds at most one row per product.
C21_OneCartRowPerProduct ==
  \A c \in cart, d \in cart : c.product_id = d.product_id => c.id = d.id


\* C22: a checkout in progress is never kept waiting by another checkout,
\* except at its cart DELETE for cart rows the other has deleted and not yet
\* committed; and two checkouts whose orders are both stored have two
\* different orders, each with one line per item of its own request.
C22_CheckoutsNotSerialized ==
  /\ \A r \in Reqs :
       (/\ co[r].pc \notin {"idle", "done"}
        /\ ~(co[r].pc = "clearCart" /\ CartIds(cart) \cap LockedByOthers(r) # {}))
         => ENABLED StepOf(r)
  /\ \A r \in Reqs, q \in Reqs :
       (r # q /\ Visible(OrderId(r)) /\ Visible(OrderId(q))) =>
         /\ OrderId(r) # OrderId(q)
         /\ HasItsLines(r) /\ HasItsLines(q)
\* Two checkouts that both order product 2 overlap: q inserted its order
\* first and is about to commit, r has inserted, cleared a cart that held a
\* row, committed and answered 201 in between, and the cart is empty.
C22_Witness ==
  \E r \in Reqs, q \in Reqs :
    /\ co[r].res = 201 /\ Visible(OrderId(r)) /\ HasItsLines(r)
    /\ co[q].pc = "commit" /\ tx[q].state = "open"
    /\ OrderId(q) # 0 /\ OrderId(q) < OrderId(r)
    /\ \E n \in DOMAIN co[r].items : co[r].items[n].product_id = 2
    /\ \E n \in DOMAIN co[q].items : co[q].items[n].product_id = 2
    /\ cartSeq > 1 /\ cart = {}

C24_AnswerMatchesStore ==
  [][\A r \in Reqs :
       Responds(r) =>
         /\ co'[r].res = 201 => Visible(OrderId(r))' /\ HasItsLines(r)'
         /\ co'[r].res = 500 => ~Visible(OrderId(r))' /\ LinesOf(OrderId(r))' = {}]_vars

\* C25: every payments row refers to a committed order, and a checkout whose
\* payment call has returned success (the order is charged) has its order
\* committed, then and ever after.
C25_PaymentOnlyForCommittedOrder ==
  [][/\ \A p \in payments' : p.order_id \in DOMAIN orders'
     /\ \A r \in Reqs : co'[r].payment = "success" => Visible(OrderId(r))']_vars

\* C26: when a checkout persists its order, the cart rows it deletes and the
\* order lines it stores are the same items: every deleted row has a line of
\* its product and quantity, and every line has such a deleted row.
C26_DeletedCartLinesAreOrdered ==
  [][\A r \in Reqs :
       Persists(r) =>
         LET deleted == {c \in cart : c.id \in tx[r].cartDel}
             lines == tx[r].items
         IN /\ \A c \in deleted : \E l \in lines :
                 l.product_id = c.product_id /\ l.quantity = c.quantity
            /\ \A l \in lines : \E c \in deleted :
                 l.product_id = c.product_id /\ l.quantity = c.quantity]_vars

\* C27: the catalog lookups of a checkout are made for its items in item
\* order, one per item; after a failed lookup no further lookup is made; and
\* no INSERT or DELETE of the checkout has been issued, with or without
\* success, unless the lookup of every item has succeeded.
C27_PricingBeforePersistence ==
  [][\A r \in Reqs :
       LET n == Len(co'[r].lookups)
       IN /\ n <= Len(co'[r].items)
          /\ \A k \in 1..n : co'[r].lookups[k] = co'[r].items[k].product_id
          /\ co'[r].error = ProcessProductFailed => n = Len(co'[r].orderItems) + 1
          /\ co[r].error = ProcessProductFailed => co'[r].lookups = co[r].lookups
          /\ (\/ co'[r].pc \in {"insertOrder", "insertItems", "clearCart", "payCall",
                                "paying", "update", "commit"}
              \/ co'[r].error \in StoreErrors
              \/ OrderId(r)' # 0
              \/ tx'[r].orders # EmptyRows \/ tx'[r].items # {} \/ tx'[r].cartDel # {})
               => /\ n = Len(co'[r].items)
                  /\ Len(co'[r].orderItems) = Len(co'[r].items)]_vars
\* The lookup of the first of two items failed: one lookup was made, the
\* answer is 500 and nothing was written.
C27_Witness ==
  \E r \in Reqs :
    /\ co[r].res = 500 /\ co[r].error = ProcessProductFailed
    /\ Len(co[r].items) = 2 /\ co[r].lookups = <<co[r].items[1].product_id>>
    /\ OrderId(r) = 0 /\ orderSeq = 1

\* C28: a committed order is changed by PUT /orders/:id/status only; inside
\* its transaction a checkout changes its order only in the status and only
\* from pending to processing, and commits it as it stands there; an order
\* comes to be shipped, delivered or cancelled only by a PUT of that status.
C28_CheckoutOnlyAdvancesToProcessing ==
  [][/\ \A id \in DOMAIN orders :
          orders'[id] # orders[id] =>
            \E status \in ValidStatuses : PutOrderStatus(id, status)
     /\ \A r \in Reqs : \A id \in DOMAIN tx[r].orders :
          /\ (id \in DOMAIN tx'[r].orders /\ tx'[r].orders[id] # tx[r].orders[id]) =>
               /\ tx[r].orders[id].status = "pending"
               /\ tx'[r].orders[id] = [tx[r].orders[id] EXCEPT !.status = "processing"]
          /\ (id \notin DOMAIN orders /\ id \in DOMAIN orders') =>
               /\ orders'[id] = tx[r].orders[id]
               /\ orders'[id].status \in {"pending", "processing"}
     /\ \A id \in DOMAIN orders' :
          (/\ orders'[id].status \in {"shipped", "delivered", "cancelled"}
           /\ id \in DOMAIN orders => orders[id].status # orders'[id].status)
            => id \in DOMAIN orders /\ PutOrderStatus(id, orders'[id].status)]_vars
\* The checkout has advanced its order to processing and committed it, and a
\* PUT has cancelled it since.
C28_Witness ==
  \E r \in Reqs :
    /\ co[r].res = 201 /\ co[r].statusUpdate = "ok"
    /\ Visible(OrderId(r)) /\ orders[OrderId(r)].status = "cancelled"

\* C29: a checkout makes at most one catalog lookup per item of its request
\* and at most one payment call; once it has answered it takes no further
\* step; and a stored order in pending leaves pending only by a PUT
\* /orders/:id/status, never by the order service on its own.
C29_NoRetries ==
  [][/\ \A r \in Reqs :
          /\ Len(co'[r].lookups) <= Len(co'[r].items)
          /\ co'[r].payCalls <= 1
          /\ co[r].pc = "done" => co'[r] = co[r] /\ tx'[r] = tx[r]
     /\ \A id \in DOMAIN orders :
          (orders[id].status = "pending" /\ orders'[id].status # "pending") =>
            \E status \in ValidStatuses : PutOrderStatus(id, status)]_vars
\* A checkout of two items has made two lookups and one payment call, the
\* payment was declined, and the order is stored in pending.
C29_Witness ==
  \E r \in Reqs :
    /\ co[r].res = 201 /\ co[r].payment = "failed" /\ co[r].payCalls = 1
    /\ Len(co[r].items) = 2 /\ Len(co[r].lookups) = 2
    /\ Visible(OrderId(r)) /\ orders[OrderId(r)].status = "pending"

\* C30: every POST /orders that has obtained its client ends: it then has
\* answered 201 or 500 and released the client; it answers at most once and
\* releases at most once.
C30_EveryCheckoutAnswersAndReleases ==
  /\ \A r \in Reqs :
       (co[r].pc = "begin") ~>
         (co[r].pc = "done" /\ co[r].res \in {201, 500} /\ co[r].released = 1)
  /\ [][\A r \in Reqs :
          /\ co'[r].res # co[r].res => co[r].res = 0 /\ co'[r].res \in {201, 500}
          /\ co'[r].released # co[r].released =>
               co[r].released = 0 /\ co'[r].released = 1]_vars
====
